---- MODULE Spec2Model ----
(***************************************************************************)
(* The career-guidance request pipeline: process_career_request (main.py)  *)
(* and ResumeProcessingTool._run (crew_setup.py).                          *)
(*                                                                         *)
(* Text is modelled character by character: a Python str is a sequence of  *)
(* one-character strings.  The text of a generation response is a sequence *)
(* of lexemes (each a str): the JSON punctuation, string literals, numbers *)
(* and words of the response, in the order they appear.                    *)
(***************************************************************************)
EXTENDS Integers, Sequences, FiniteSets, TLC

(***************************************************************************)
(* Bounds.                                                                 *)
(***************************************************************************)
\* the most pages of a document handed to the resume tool
MaxPages == 2
\* the most pieces of prose before, and after, the JSON of a kickoff output
MaxProse == 1
\* the most profile skills of a completion response in SpecFilter
MaxSkills == 2

(***************************************************************************)
(* Python values: None, str, int, list, dict, tagged with their type.      *)
(***************************************************************************)
None == [t |-> "None", v |-> <<>>]
PyStr(s) == [t |-> "str", v |-> s]
PyInt(n) == [t |-> "int", v |-> n]
PyList(xs) == [t |-> "list", v |-> xs]
\* a dict holds its items in insertion order, as <<key, value>> pairs
PyDict(items) == [t |-> "dict", v |-> items]

(***************************************************************************)
(* str operations.                                                         *)
(***************************************************************************)
UpperCase ==
  <<"A", "B", "C", "D", "E", "F", "G", "H", "I", "J", "K", "L", "M",
    "N", "O", "P", "Q", "R", "S", "T", "U", "V", "W", "X", "Y", "Z">>
LowerCase ==
  <<"a", "b", "c", "d", "e", "f", "g", "h", "i", "j", "k", "l", "m",
    "n", "o", "p", "q", "r", "s", "t", "u", "v", "w", "x", "y", "z">>
Digits == <<"0", "1", "2", "3", "4", "5", "6", "7", "8", "9">>

IndexIn(c, seq) == IF \E i \in 1..Len(seq) : seq[i] = c
                   THEN CHOOSE i \in 1..Len(seq) : seq[i] = c
                   ELSE 0

\* the code point of a character
ord(c) ==
  IF IndexIn(c, UpperCase) > 0 THEN 64 + IndexIn(c, UpperCase)
  ELSE IF IndexIn(c, LowerCase) > 0 THEN 96 + IndexIn(c, LowerCase)
  ELSE IF IndexIn(c, Digits) > 0 THEN 47 + IndexIn(c, Digits)
  ELSE CASE c = "\t" -> 9  [] c = "\n" -> 10 [] c = " " -> 32
         [] c = "\"" -> 34 [] c = "'" -> 39  [] c = "+" -> 43
         [] c = "," -> 44  [] c = "-" -> 45  [] c = "." -> 46
         [] c = ":" -> 58  [] c = "[" -> 91  [] c = "]" -> 93
         [] c = "{" -> 123 [] c = "}" -> 125

\* str.isspace of one character
isspace(c) == c \in {" ", "\n", "\t"}

\* str.lower of one character, and of a str
lower_char(c) ==
  IF IndexIn(c, UpperCase) > 0 THEN LowerCase[IndexIn(c, UpperCase)] ELSE c
lower(s) == [i \in 1..Len(s) |-> lower_char(s[i])]

\* str.strip(): the text without its leading and trailing whitespace
RECURSIVE lstrip(_)
lstrip(s) == IF s # <<>> /\ isspace(Head(s)) THEN lstrip(Tail(s)) ELSE s
RECURSIVE rstrip(_)
rstrip(s) == IF s # <<>> /\ isspace(s[Len(s)])
             THEN rstrip(SubSeq(s, 1, Len(s) - 1)) ELSE s
strip(s) == rstrip(lstrip(s))

\* `sub in s` on two strs
contains(s, sub) ==
  \E i \in 1..(Len(s) - Len(sub) + 1) : SubSeq(s, i, i + Len(sub) - 1) = sub

\* a < b on two strs: lexicographic by code point
RECURSIVE str_less(_, _)
str_less(a, b) ==
  IF b = <<>> THEN FALSE
  ELSE IF a = <<>> THEN TRUE
  ELSE IF Head(a) = Head(b) THEN str_less(Tail(a), Tail(b))
  ELSE ord(Head(a)) < ord(Head(b))

\* sorted(list(set(xs))) on a list of strs
RECURSIVE sorted_set(_)
sorted_set(S) ==
  IF S = {} THEN <<>>
  ELSE LET m == CHOOSE x \in S : \A y \in S \ {x} : str_less(x, y)
       IN  <<m>> \o sorted_set(S \ {m})
set_of(xs) == {xs[i] : i \in 1..Len(xs)}
sorted_unique(xs) == sorted_set(set_of(xs))

RECURSIVE concat(_)
concat(seqs) == IF seqs = <<>> THEN <<>> ELSE Head(seqs) \o concat(Tail(seqs))

(***************************************************************************)
(* ResumeProcessingTool._run: the fallback vocabulary.                     *)
(***************************************************************************)
common_skills ==
  << <<"P", "y", "t", "h", "o", "n">>,
     <<"J", "a", "v", "a">>,
     <<"C", "+", "+">>,
     <<"J", "a", "v", "a", "S", "c", "r", "i", "p", "t">>,
     <<"R", "e", "a", "c", "t">>,
     <<"A", "n", "g", "u", "l", "a", "r">>,
     <<"V", "u", "e", ".", "j", "s">>,
     <<"S", "Q", "L">>,
     <<"N", "o", "S", "Q", "L">>,
     <<"M", "o", "n", "g", "o", "D", "B">>,
     <<"P", "o", "s", "t", "g", "r", "e", "S", "Q", "L">>,
     <<"M", "y", "S", "Q", "L">>,
     <<"D", "o", "c", "k", "e", "r">>,
     <<"K", "u", "b", "e", "r", "n", "e", "t", "e", "s">>,
     <<"A", "W", "S">>,
     <<"A", "z", "u", "r", "e">>,
     <<"G", "C", "P">>,
     <<"M", "a", "c", "h", "i", "n", "e", " ", "L", "e", "a", "r", "n", "i", "n", "g">>,
     <<"D", "e", "e", "p", " ", "L", "e", "a", "r", "n", "i", "n", "g">>,
     <<"D", "a", "t", "a", " ", "A", "n", "a", "l", "y", "s", "i", "s">>,
     <<"P", "a", "n", "d", "a", "s">>,
     <<"N", "u", "m", "P", "y">>,
     <<"S", "c", "i", "k", "i", "t", "-", "l", "e", "a", "r", "n">>,
     <<"T", "e", "n", "s", "o", "r", "F", "l", "o", "w">>,
     <<"P", "y", "T", "o", "r", "c", "h">>,
     <<"G", "i", "t">>,
     <<"A", "P", "I">>,
     <<"F", "a", "s", "t", "A", "P", "I">>,
     <<"S", "t", "r", "e", "a", "m", "l", "i", "t">>,
     <<"L", "a", "n", "g", "C", "h", "a", "i", "n">>,
     <<"C", "r", "e", "w", "A", "I">>,
     <<"C", "o", "m", "m", "u", "n", "i", "c", "a", "t", "i", "o", "n">>,
     <<"T", "e", "a", "m", "w", "o", "r", "k">>,
     <<"P", "r", "o", "j", "e", "c", "t", " ", "M", "a", "n", "a", "g", "e", "m", "e", "n", "t">>,
     <<"D", "a", "t", "a", " ", "S", "c", "i", "e", "n", "c", "e">>,
     <<"W", "e", "b", " ", "D", "e", "v", "e", "l", "o", "p", "m", "e", "n", "t">>,
     <<"C", "l", "o", "u", "d", " ", "C", "o", "m", "p", "u", "t", "i", "n", "g">> >>

\* "LLM extraction failed, basic skills extracted."
FALLBACK_SUMMARY ==
  <<"L", "L", "M", " ", "e", "x", "t", "r", "a", "c", "t", "i", "o", "n", " ", "f", "a", "i", "l", "e", "d", ",", " ", "b", "a", "s", "i", "c", " ", "s", "k", "i", "l", "l", "s", " ", "e", "x", "t", "r", "a", "c", "t", "e", "d", ".">>

\* lines 94-99 with the text compared as it is, not lower-cased
fallback_skills_cased(extracted_text) ==
  sorted_unique(SelectSeq(common_skills,
                          LAMBDA skill : contains(extracted_text, skill)))
\* lines 94-99: the keyword scan of the fallback path
fallback_skills(extracted_text) ==
  LET text_lower == lower(extracted_text)
      found_skills == SelectSeq(common_skills,
                        LAMBDA skill : contains(text_lower, lower(skill)))
  IN  sorted_unique(found_skills)


(***************************************************************************)
(* JSON text.  A lexeme is a str; a text is the sequence of its lexemes.   *)
(***************************************************************************)
LBRACE == <<"{">>
RBRACE == <<"}">>
LBRACKET == <<"[">>
RBRACKET == <<"]">>
COLON == <<":">>
COMMA == <<",">>
QUOTE == "\""
LIT_NULL == <<"n", "u", "l", "l">>
LIT_TRUE == <<"t", "r", "u", "e">>
LIT_FALSE == <<"f", "a", "l", "s", "e">>
PyBool(b) == [t |-> "bool", v |-> b]

\* the string literal "s"
Q(s) == <<QUOTE>> \o s \o <<QUOTE>>
is_string_lit(x) ==
  /\ Len(x) >= 2
  /\ x[1] = QUOTE
  /\ x[Len(x)] = QUOTE
  /\ \A i \in 2..(Len(x) - 1) : x[i] # QUOTE
string_of(x) == SubSeq(x, 2, Len(x) - 1)
is_number_lit(x) == x # <<>> /\ \A i \in 1..Len(x) : IndexIn(x[i], Digits) > 0
RECURSIVE number_of(_)
number_of(x) ==
  IF x = <<>> THEN 0
  ELSE 10 * number_of(SubSeq(x, 1, Len(x) - 1)) + (IndexIn(x[Len(x)], Digits) - 1)
is_space_lexeme(x) == x # <<>> /\ \A i \in 1..Len(x) : isspace(x[i])

\* the result of parsing a prefix of a lexeme sequence
ParseFail == [ok |-> FALSE, val |-> None, rest |-> <<>>]
ParseOk(val, rest) == [ok |-> TRUE, val |-> val, rest |-> rest]

RECURSIVE parse_value(_)
RECURSIVE parse_members(_, _)
RECURSIVE parse_elements(_, _)

\* value ::= object | array | string | number | null | true | false
parse_value(toks) ==
  IF toks = <<>> THEN ParseFail
  ELSE LET h == Head(toks)
           r == Tail(toks)
       IN  IF h = LBRACE
             THEN IF r # <<>> /\ Head(r) = RBRACE
                    THEN ParseOk(PyDict(<<>>), Tail(r))
                    ELSE parse_members(r, <<>>)
           ELSE IF h = LBRACKET
             THEN IF r # <<>> /\ Head(r) = RBRACKET
                    THEN ParseOk(PyList(<<>>), Tail(r))
                    ELSE parse_elements(r, <<>>)
           ELSE IF is_string_lit(h) THEN ParseOk(PyStr(string_of(h)), r)
           ELSE IF is_number_lit(h) THEN ParseOk(PyInt(number_of(h)), r)
           ELSE IF h = LIT_NULL THEN ParseOk(None, r)
           ELSE IF h = LIT_TRUE THEN ParseOk(PyBool(TRUE), r)
           ELSE IF h = LIT_FALSE THEN ParseOk(PyBool(FALSE), r)
           ELSE ParseFail

\* members ::= string ":" value ( "," string ":" value )* "}"
parse_members(toks, acc) ==
  IF Len(toks) < 3 \/ ~is_string_lit(toks[1]) \/ toks[2] # COLON THEN ParseFail
  ELSE LET m == parse_value(SubSeq(toks, 3, Len(toks)))
           items == Append(acc, <<string_of(toks[1]), m.val>>)
       IN  IF ~m.ok \/ m.rest = <<>> THEN ParseFail
           ELSE IF Head(m.rest) = RBRACE THEN ParseOk(PyDict(items), Tail(m.rest))
           ELSE IF Head(m.rest) = COMMA THEN parse_members(Tail(m.rest), items)
           ELSE ParseFail

\* elements ::= value ( "," value )* "]"
parse_elements(toks, acc) ==
  LET m == parse_value(toks)
      items == Append(acc, m.val)
  IN  IF ~m.ok \/ m.rest = <<>> THEN ParseFail
      ELSE IF Head(m.rest) = RBRACKET THEN ParseOk(PyList(items), Tail(m.rest))
      ELSE IF Head(m.rest) = COMMA THEN parse_elements(Tail(m.rest), items)
      ELSE ParseFail

\* json.loads(text): the value of a text that is one JSON value and nothing
\* else (whitespace between lexemes aside); ok = FALSE is JSONDecodeError
json_loads(text) ==
  LET p == parse_value(SelectSeq(text, LAMBDA x : ~is_space_lexeme(x)))
  IN  IF p.ok /\ p.rest = <<>> THEN p ELSE ParseFail

\* dict lookup: a later item of the same key replaces an earlier one
dict_has(d, key) == \E i \in 1..Len(d.v) : d.v[i][1] = key
dict_at(d, key) ==
  d.v[CHOOSE i \in 1..Len(d.v) :
        /\ d.v[i][1] = key
        /\ \A j \in (i + 1)..Len(d.v) : d.v[j][1] # key][2]
\* dict.get(key, default)
dict_get(d, key, default) == IF dict_has(d, key) THEN dict_at(d, key) ELSE default
\* len(x) is defined for str, list and dict; TypeError otherwise
has_len(x) == x.t \in {"str", "list", "dict"}


(***************************************************************************)
(* The keys and fixed texts of the program.                                *)
(***************************************************************************)
K_skills == <<"s", "k", "i", "l", "l", "s">>
K_summary == <<"s", "u", "m", "m", "a", "r", "y">>
K_guidance == <<"g", "u", "i", "d", "a", "n", "c", "e">>
K_matched_jobs == <<"m", "a", "t", "c", "h", "e", "d", "_", "j", "o", "b", "s">>
K_career_path_suggestion == <<"c", "a", "r", "e", "e", "r", "_", "p", "a", "t", "h", "_", "s", "u", "g", "g", "e", "s", "t", "i", "o", "n">>
K_relevant_skills_gap == <<"r", "e", "l", "e", "v", "a", "n", "t", "_", "s", "k", "i", "l", "l", "s", "_", "g", "a", "p">>
K_actionable_steps == <<"a", "c", "t", "i", "o", "n", "a", "b", "l", "e", "_", "s", "t", "e", "p", "s">>
K_potential_job_titles == <<"p", "o", "t", "e", "n", "t", "i", "a", "l", "_", "j", "o", "b", "_", "t", "i", "t", "l", "e", "s">>
K_title == <<"t", "i", "t", "l", "e">>
K_company == <<"c", "o", "m", "p", "a", "n", "y">>
K_location == <<"l", "o", "c", "a", "t", "i", "o", "n">>
K_skills_required == <<"s", "k", "i", "l", "l", "s", "_", "r", "e", "q", "u", "i", "r", "e", "d">>
K_description == <<"d", "e", "s", "c", "r", "i", "p", "t", "i", "o", "n">>
\* "No summary provided."
NO_SUMMARY_PROVIDED == <<"N", "o", " ", "s", "u", "m", "m", "a", "r", "y", " ", "p", "r", "o", "v", "i", "d", "e", "d", ".">>
\* "No summary extracted."
NO_SUMMARY_EXTRACTED == <<"N", "o", " ", "s", "u", "m", "m", "a", "r", "y", " ", "e", "x", "t", "r", "a", "c", "t", "e", "d", ".">>

(***************************************************************************)
(* ResumeProcessingTool._run.  A document is [readable, pages]: readable   *)
(* is whether PyPDF2 parses it, and each page is what extract_text()       *)
(* returns for it: a str or None.  llm is the outcome of the completion    *)
(* call: [raises, content].                                                *)
(***************************************************************************)
\* line 32 without its `or ""`: a page without text adds the text of None
page_text_of_none(page) ==
  IF page.t = "str" THEN page.v ELSE <<"N", "o", "n", "e">>
\* line 32: reader.pages[page_num].extract_text() or ""
page_text(page) == IF page.t = "str" THEN page.v ELSE <<>>
\* lines 31-32: the pages in order, each appended to extracted_text
extract_text(pages) == concat([i \in 1..Len(pages) |-> page_text(pages[i])])
\* lines 28-34: whether the try block of the extraction completes
extraction_ok(doc) == doc.readable /\ strip(extract_text(doc.pages)) # <<>>
\* lines 35-37: the dict returned when the extraction raised
extraction_error(doc) ==
  [error |-> IF doc.readable THEN "Failed to read or process PDF: No readable text found in PDF."
             ELSE "Failed to read or process PDF: PdfReadError",
   extracted_text |-> <<>>,
   skills |-> PyList(<<>>)]

\* lines 69-75: whether the try block of the generation step completes
llm_usable(llm) ==
  /\ ~llm.raises
  /\ json_loads(llm.content).ok
  /\ json_loads(llm.content).val.t = "dict"
  /\ has_len(dict_get(json_loads(llm.content).val, K_skills, PyList(<<>>)))
\* lines 72-81: the dict returned from the generation response
llm_profile(extracted_text, llm) ==
  LET parsed_llm_output == json_loads(llm.content).val
  IN  [status |-> "success",
       extracted_text |-> extracted_text,
       skills |-> dict_get(parsed_llm_output, K_skills, PyList(<<>>)),
       resume_summary |-> dict_get(parsed_llm_output, K_summary,
                                   PyStr(NO_SUMMARY_PROVIDED))]
\* lines 83-106: the dict returned by the except branch
fallback_profile(extracted_text) ==
  [status |-> "partial_success",
   extracted_text |-> extracted_text,
   skills |-> PyList([i \in 1..Len(fallback_skills(extracted_text)) |->
                        PyStr(fallback_skills(extracted_text)[i])]),
   resume_summary |-> PyStr(FALLBACK_SUMMARY)]

\* whether _run reaches the completion call (line 58)
run_calls_llm(doc) == extraction_ok(doc)
\* _run as a whole
run_resume_tool(doc, llm) ==
  IF ~extraction_ok(doc) THEN extraction_error(doc)
  ELSE IF llm_usable(llm) THEN llm_profile(extract_text(doc.pages), llm)
  ELSE fallback_profile(extract_text(doc.pages))


(***************************************************************************)
(* JobFilteringTool._run and the job catalog.  crew_setup.py does not hold *)
(* them; they follow section 4.3 of the specification.                     *)
(***************************************************************************)
CATALOG ==
  << [title |-> <<"T", "1">>, company |-> <<"C", "o">>, location |-> <<"X">>,
      skills_required |-> <<<<"P", "y", "t", "h", "o", "n">>, <<"S", "Q", "L">>>>, description |-> <<"d">>],
     [title |-> <<"T", "2">>, company |-> <<"C", "o">>, location |-> <<"X">>,
      skills_required |-> <<<<"J", "a", "v", "a">>>>, description |-> <<"d">>],
     [title |-> <<"T", "3">>, company |-> <<"C", "o">>, location |-> <<"X">>,
      skills_required |-> <<<<"p", "y", "t", "h", "o", "n">>, <<"D", "o", "c", "k", "e", "r">>>>, description |-> <<"d">>],
     [title |-> <<"T", "4">>, company |-> <<"C", "o">>, location |-> <<"X">>,
      skills_required |-> <<<<"P", "y", "t", "h", "o", "n">>, <<"A", "W", "S">>>>, description |-> <<"d">>],
     [title |-> <<"T", "5">>, company |-> <<"C", "o">>, location |-> <<"X">>,
      skills_required |-> <<<<"J", "a", "v", "a", "S", "c", "r", "i", "p", "t">>, <<"P", "y", "t", "h", "o", "n">>>>, description |-> <<"d">>],
     [title |-> <<"T", "6">>, company |-> <<"C", "o">>, location |-> <<"X">>,
      skills_required |-> <<<<"P", "y", "t", "h", "o", "n">>>>, description |-> <<"d">>],
     [title |-> <<"T", "7">>, company |-> <<"C", "o">>, location |-> <<"X">>,
      skills_required |-> <<<<"S", "Q", "L">>, <<"P", "y", "t", "h", "o", "n">>>>, description |-> <<"d">>],
     [title |-> <<"T", "8">>, company |-> <<"C", "o">>, location |-> <<"X">>,
      skills_required |-> <<<<"G", "i", "t">>, <<"P", "Y", "T", "H", "O", "N">>>>, description |-> <<"d">>],
     [title |-> <<"T", "9">>, company |-> <<"C", "o">>, location |-> <<"X">>,
      skills_required |-> <<<<"P", "y", "t", "h", "o", "n">>, <<"J", "a", "v", "a">>>>, description |-> <<"d">>] >>

\* the most matches returned
MAX_MATCHES == 7

\* the elements Python iterates over: of a list its items, of a str its
\* characters, of a dict its keys
iter_ok(x) == x.t \in {"list", "str", "dict"}
iter_items(x) ==
  IF x.t = "list" THEN x.v
  ELSE IF x.t = "str" THEN [i \in 1..Len(x.v) |-> PyStr(<<x.v[i]>>)]
  ELSE [i \in 1..Len(x.v) |-> PyStr(x.v[i][1])]
\* whether lower-casing the skills raises: a skill that is no str has no lower()
job_filter_raises(user_skills) ==
  \/ ~iter_ok(user_skills)
  \/ \E i \in 1..Len(iter_items(user_skills)) : iter_items(user_skills)[i].t # "str"
lowered_skills(user_skills) ==
  {lower(iter_items(user_skills)[i].v) : i \in 1..Len(iter_items(user_skills))}
job_matches(posting, user_skills) ==
  \E i \in 1..Len(posting.skills_required) :
     lower(posting.skills_required[i]) \in lowered_skills(user_skills)
\* the cap applied to the catalog before the filter and not to the matches
job_filter_cap_first(user_skills) ==
  SelectSeq(SubSeq(CATALOG, 1, MAX_MATCHES),
            LAMBDA posting : job_matches(posting, user_skills))
job_filter(user_skills) ==
  LET hits == SelectSeq(CATALOG, LAMBDA posting : job_matches(posting, user_skills))
  IN  SubSeq(hits, 1, IF Len(hits) < MAX_MATCHES THEN Len(hits) ELSE MAX_MATCHES)

(***************************************************************************)
(* FinalCrewOutput and its validation (model_validate_json).  crew_setup   *)
(* does not hold the class; the shape follows sections 3 and 6 of the      *)
(* specification and the fields main.py and app.py read.                   *)
(***************************************************************************)
MIN_JOB_TITLES == 5
MAX_JOB_TITLES == 10

is_str(x) == x.t = "str"
is_list_of_str(x) == x.t = "list" /\ \A i \in 1..Len(x.v) : is_str(x.v[i])
has_str(d, key) == dict_has(d, key) /\ is_str(dict_at(d, key))
strs_of(x) == [i \in 1..Len(x.v) |-> x.v[i].v]

valid_guidance(g) ==
  /\ g.t = "dict"
  /\ has_str(g, K_career_path_suggestion)
  /\ has_str(g, K_relevant_skills_gap)
  /\ has_str(g, K_actionable_steps)
  /\ dict_has(g, K_potential_job_titles)
  /\ is_list_of_str(dict_at(g, K_potential_job_titles))
  /\ Len(dict_at(g, K_potential_job_titles).v) >= MIN_JOB_TITLES
  /\ Len(dict_at(g, K_potential_job_titles).v) <= MAX_JOB_TITLES
valid_job(j) ==
  /\ j.t = "dict"
  /\ has_str(j, K_title)
  /\ has_str(j, K_company)
  /\ has_str(j, K_location)
  /\ dict_has(j, K_skills_required)
  /\ is_list_of_str(dict_at(j, K_skills_required))
  /\ has_str(j, K_description)
valid_final(x) ==
  /\ x.t = "dict"
  /\ dict_has(x, K_guidance)
  /\ valid_guidance(dict_at(x, K_guidance))
  /\ dict_has(x, K_matched_jobs)
  /\ dict_at(x, K_matched_jobs).t = "list"
  /\ \A i \in 1..Len(dict_at(x, K_matched_jobs).v) :
        valid_job(dict_at(x, K_matched_jobs).v[i])

\* the validated objects: the declared fields, other keys dropped
guidance_of(g) ==
  [career_path_suggestion |-> dict_at(g, K_career_path_suggestion).v,
   relevant_skills_gap |-> dict_at(g, K_relevant_skills_gap).v,
   actionable_steps |-> dict_at(g, K_actionable_steps).v,
   potential_job_titles |-> strs_of(dict_at(g, K_potential_job_titles))]
job_of(j) ==
  [title |-> dict_at(j, K_title).v,
   company |-> dict_at(j, K_company).v,
   location |-> dict_at(j, K_location).v,
   skills_required |-> strs_of(dict_at(j, K_skills_required)),
   description |-> dict_at(j, K_description).v]
final_of(x) ==
  [guidance |-> guidance_of(dict_at(x, K_guidance)),
   matched_jobs |-> [i \in 1..Len(dict_at(x, K_matched_jobs).v) |->
                       job_of(dict_at(x, K_matched_jobs).v[i])]]

\* FinalCrewOutput.model_validate_json(text): ok = FALSE is ValidationError
model_validate_json(text) ==
  LET p == json_loads(text)
  IN  IF p.ok /\ valid_final(p.val)
        THEN [ok |-> TRUE, obj |-> final_of(p.val)]
        ELSE [ok |-> FALSE, obj |-> [guidance |-> <<>>, matched_jobs |-> <<>>]]


(***************************************************************************)
(* process_career_request, lines 169-196: the search for the JSON object.  *)
(* Braces are lexemes of their own, so re.search(r'{.*}', s, re.DOTALL)    *)
(* works on the lexeme sequence as on the characters.                      *)
(***************************************************************************)
\* str.strip() of a text: its leading and trailing whitespace lexemes go
RECURSIVE text_lstrip(_)
text_lstrip(s) ==
  IF s # <<>> /\ is_space_lexeme(Head(s)) THEN text_lstrip(Tail(s)) ELSE s
RECURSIVE text_rstrip(_)
text_rstrip(s) ==
  IF s # <<>> /\ is_space_lexeme(s[Len(s)])
    THEN text_rstrip(SubSeq(s, 1, Len(s) - 1)) ELSE s
text_strip(s) == text_rstrip(text_lstrip(s))

positions(s, x) == {i \in 1..Len(s) : s[i] = x}
Min(S) == CHOOSE m \in S : \A n \in S : m <= n
Max(S) == CHOOSE m \in S : \A n \in S : m >= n
\* the start and the end of the match of {.*} : the leftmost "{" that has a
\* "}" after it, and, the quantifier being greedy, the last "}"
match_start(s) == Min(positions(s, LBRACE))
\* the end of the match of {.*?} : the quantifier not greedy, the first "}"
\* after the start
match_end_lazy(s) ==
  IF {j \in positions(s, RBRACE) : j > match_start(s)} = {} THEN 0
  ELSE Min({j \in positions(s, RBRACE) : j > match_start(s)})
match_end(s) == Max(positions(s, RBRACE))
\* line 175 with a search that takes any "{" and any "}", in either order
json_match_found_unordered(s) ==
  positions(s, LBRACE) # {} /\ positions(s, RBRACE) # {}
\* line 175: json_match is not None
json_match_found(s) ==
  /\ positions(s, LBRACE) # {}
  /\ positions(s, RBRACE) # {}
  /\ match_start(s) < match_end(s)
\* line 178: json_match.group(0)
json_match_group(s) == SubSeq(s, match_start(s), match_end(s))


(***************************************************************************)
(* The environment: what the upload, the completion call and the Crew      *)
(* kickoff can hand to the program.                                        *)
(***************************************************************************)
SPACE == <<" ">>
NEWLINE == <<"\n">>
\* a word of prose
WORD == <<"H", "e", "r", "e">>

RECURSIVE join(_, _)
join(seqs, sep) ==
  IF seqs = <<>> THEN <<>>
  ELSE IF Len(seqs) = 1 THEN Head(seqs)
  ELSE Head(seqs) \o <<sep>> \o join(Tail(seqs), sep)

\* the JSON text of a list of strs, of a job, of a guidance, of a result
enc_strs(xs) ==
  <<LBRACKET>> \o join([i \in 1..Len(xs) |-> <<Q(xs[i])>>], COMMA) \o <<RBRACKET>>
enc_job(j) ==
  <<LBRACE, Q(K_title), COLON, Q(j.title), COMMA,
    Q(K_company), COLON, Q(j.company), COMMA,
    Q(K_location), COLON, Q(j.location), COMMA,
    Q(K_skills_required), COLON>> \o enc_strs(j.skills_required) \o
  <<COMMA, Q(K_description), COLON, Q(j.description), RBRACE>>
enc_jobs(jobs) ==
  <<LBRACKET>> \o join([i \in 1..Len(jobs) |-> enc_job(jobs[i])], COMMA)
               \o <<RBRACKET>>
enc_guidance(g) ==
  <<LBRACE, Q(K_career_path_suggestion), COLON, Q(g.career_path_suggestion), COMMA,
    Q(K_relevant_skills_gap), COLON, Q(g.relevant_skills_gap), COMMA,
    Q(K_actionable_steps), COLON, Q(g.actionable_steps), COMMA,
    Q(K_potential_job_titles), COLON>> \o enc_strs(g.potential_job_titles) \o
  <<RBRACE>>
enc_final(g, jobs) ==
  <<LBRACE, Q(K_guidance), COLON>> \o enc_guidance(g) \o
  <<COMMA, Q(K_matched_jobs), COLON>> \o enc_jobs(jobs) \o <<RBRACE>>


\* the texts of the exceptions the environment raises
ErrorTexts == {<<<<"d", "i", "s", "k", " ", "f", "u", "l", "l">>>>, <<<<"t", "i", "m", "e", "o", "u", "t">>>>}

\* pages: no extractable text, whitespace, and texts naming skills
PAGE_BLANK == PyStr(<<" ", "\n">>)
PAGE_SKILLS == PyStr(<<"S", "k", "i", "l", "l", "s", ":", " ", "P", "y", "t", "h", "o", "n", ",", " ", "S", "Q", "L">>)
PAGE_MIXED == PyStr(<<"J", "A", "V", "A", "S", "C", "R", "I", "P", "T", " ", "n", "o", "s", "q", "l">>)
PAGE_OTHER == PyStr(<<"x", "y", "z", " ">>)
PageTexts == {None, PAGE_BLANK, PAGE_SKILLS, PAGE_MIXED, PAGE_OTHER}
RECURSIVE SeqsUpTo(_, _)
SeqsUpTo(S, n) ==
  IF n = 0 THEN {<<>>}
  ELSE SeqsUpTo(S, n - 1) \cup
       {Append(s, x) : s \in {t \in SeqsUpTo(S, n - 1) : Len(t) = n - 1}, x \in S}
UNREADABLE == [readable |-> FALSE, pages |-> <<>>]
\* the documents of up to n pages, and a payload that is no PDF
Documents(n) ==
  {UNREADABLE} \cup {[readable |-> TRUE, pages |-> p] : p \in SeqsUpTo(PageTexts, n)}
\* the documents uploaded to the request handler
RequestDocuments ==
  {UNREADABLE,
   [readable |-> TRUE, pages |-> <<>>],
   [readable |-> TRUE, pages |-> <<None, PAGE_BLANK>>],
   [readable |-> TRUE, pages |-> <<PAGE_SKILLS>>],
   [readable |-> TRUE, pages |-> <<PAGE_MIXED, None, PAGE_OTHER>>]}

\* the contents of the completion response
\* skills with a duplicate, and a summary
LLM_GOOD ==
  <<LBRACE>> \o <<Q(K_skills), COLON>> \o enc_strs(<<<<"P", "y", "t", "h", "o", "n">>, <<"S", "Q", "L">>, <<"P", "y", "t", "h", "o", "n">>>>) \o <<COMMA>> \o <<Q(K_summary), COLON>> \o <<Q(<<"D", "e", "v">>)>> \o <<RBRACE>>
\* an empty skills list
LLM_NO_SKILLS ==
  <<LBRACE>> \o <<Q(K_skills), COLON>> \o enc_strs(<<>>) \o <<COMMA>> \o <<Q(K_summary), COLON>> \o <<Q(<<"D", "e", "v">>)>> \o <<RBRACE>>
\* no skills field
LLM_MISSING_SKILLS ==
  <<LBRACE>> \o <<Q(K_summary), COLON>> \o <<Q(<<"D", "e", "v">>)>> \o <<RBRACE>>
\* no summary field
LLM_MISSING_SUMMARY ==
  <<LBRACE>> \o <<Q(K_skills), COLON>> \o enc_strs(<<<<"J", "a", "v", "a">>>>) \o <<RBRACE>>
\* neither field
LLM_EMPTY_OBJECT ==
  <<LBRACE, RBRACE>>
\* skills: null
LLM_NULL_SKILLS ==
  <<LBRACE>> \o <<Q(K_skills), COLON>> \o <<LIT_NULL>> \o <<COMMA>> \o <<Q(K_summary), COLON>> \o <<Q(<<"D", "e", "v">>)>> \o <<RBRACE>>
\* skills: a str
LLM_STR_SKILLS ==
  <<LBRACE>> \o <<Q(K_skills), COLON>> \o <<Q(<<"G", "i", "t">>)>> \o <<COMMA>> \o <<Q(K_summary), COLON>> \o <<Q(<<"D", "e", "v">>)>> \o <<RBRACE>>
\* skills: a number
LLM_INT_SKILLS ==
  <<LBRACE>> \o <<Q(K_skills), COLON>> \o <<<<"5">>>> \o <<COMMA>> \o <<Q(K_summary), COLON>> \o <<Q(<<"D", "e", "v">>)>> \o <<RBRACE>>
\* skills: an object
LLM_DICT_SKILLS ==
  <<LBRACE>> \o <<Q(K_skills), COLON>> \o <<LBRACE, Q(<<"G", "i", "t">>), COLON, LIT_TRUE, RBRACE>> \o <<COMMA>> \o <<Q(K_summary), COLON>> \o <<Q(<<"D", "e", "v">>)>> \o <<RBRACE>>
\* skills: a list of numbers
LLM_INT_LIST_SKILLS ==
  <<LBRACE>> \o <<Q(K_skills), COLON>> \o <<LBRACKET, <<"1">>, COMMA, <<"2">>, RBRACKET>> \o <<COMMA>> \o <<Q(K_summary), COLON>> \o <<Q(<<"D", "e", "v">>)>> \o <<RBRACE>>
\* summary: null
LLM_NULL_SUMMARY ==
  <<LBRACE>> \o <<Q(K_skills), COLON>> \o enc_strs(<<<<"G", "i", "t">>>>) \o <<COMMA>> \o <<Q(K_summary), COLON>> \o <<LIT_NULL>> \o <<RBRACE>>
\* summary: a number
LLM_INT_SUMMARY ==
  <<LBRACE>> \o <<Q(K_skills), COLON>> \o enc_strs(<<<<"G", "i", "t">>>>) \o <<COMMA>> \o <<Q(K_summary), COLON>> \o <<<<"7">>>> \o <<RBRACE>>
\* a JSON list, not an object
LLM_LIST ==
  enc_strs(<<<<"P", "y", "t", "h", "o", "n">>>>)
\* the JSON null
LLM_NULL ==
  <<LIT_NULL>>
\* prose, not JSON
LLM_PROSE ==
  <<WORD, SPACE, WORD>>
\* JSON cut short
LLM_TRUNCATED ==
  <<LBRACE, Q(K_skills), COLON, LBRACKET>>
LlmContents ==
  {LLM_GOOD, LLM_NO_SKILLS, LLM_MISSING_SKILLS, LLM_MISSING_SUMMARY,
   LLM_EMPTY_OBJECT, LLM_NULL_SKILLS, LLM_STR_SKILLS, LLM_INT_SKILLS,
   LLM_DICT_SKILLS, LLM_INT_LIST_SKILLS, LLM_NULL_SUMMARY, LLM_INT_SUMMARY,
   LLM_LIST, LLM_NULL, LLM_PROSE, LLM_TRUNCATED}
\* the outcomes of the completion call: it raises, or returns a content
LlmOutcomes ==
  {[raises |-> TRUE, content |-> <<>>]} \cup
  {[raises |-> FALSE, content |-> c] : c \in LlmContents}
NoLlm == [raises |-> FALSE, content |-> <<>>]


\* a guidance that validates, and one with too few job titles
GUIDANCE ==
  [career_path_suggestion |-> <<"M", "L">>,
   relevant_skills_gap |-> <<"S", "Q", "L">>,
   actionable_steps |-> <<"L", "e", "a", "r", "n">>,
   potential_job_titles |-> [i \in 1..MIN_JOB_TITLES |-> <<"D", "e", "v">>]]
GUIDANCE_SHORT ==
  [GUIDANCE EXCEPT !.potential_job_titles = [i \in 1..(MIN_JOB_TITLES - 1) |-> <<"D", "e", "v">>]]
\* a posting the catalog does not hold
INVENTED_JOB ==
  [title |-> <<"C", "E", "O">>, company |-> <<"C", "o">>, location |-> <<"X">>,
   skills_required |-> <<>>, description |-> <<"d">>]
Reverse(s) == [i \in 1..Len(s) |-> s[Len(s) + 1 - i]]
\* what the generation call may echo as the matched jobs: the list it was
\* given, or that list reordered, shortened, replaced or extended
Echoes(jobs) ==
  {jobs, Reverse(jobs), SubSeq(jobs, 1, Len(jobs) - 1), <<INVENTED_JOB>>,
   Append(jobs, INVENTED_JOB)}
\* the JSON-looking parts of a raw output: results that validate, and texts
\* that do not: too few titles, no matched_jobs, an empty object, a word in
\* braces, an object cut short, nothing
ValidBodies(jobs) == {enc_final(GUIDANCE, e) : e \in Echoes(jobs)}
InvalidBodies(jobs) ==
  {enc_final(GUIDANCE_SHORT, jobs),
   <<LBRACE, Q(K_guidance), COLON>> \o enc_guidance(GUIDANCE) \o <<RBRACE>>,
   <<LBRACE, RBRACE>>,
   <<LBRACE, WORD, RBRACE>>,
   <<LBRACE, Q(K_guidance), COLON>>,
   <<>>}
Bodies(jobs) == ValidBodies(jobs) \cup InvalidBodies(jobs)
\* prose of up to n pieces: words, whitespace and stray braces
Prose(n) == SeqsUpTo({WORD, SPACE, LBRACE, RBRACE}, n)
\* the raw outputs: prose, a body, prose
RawOutputs(jobs, prose) ==
  {p \o b \o q : p \in prose, b \in Bodies(jobs), q \in prose}

\* what kickoff returns: a str, an object with a str raw attribute, a
\* FinalCrewOutput, or an object of another type (raw is then its str())
KickoffStr(raw) == [type |-> "str", raw |-> raw, obj |-> None]
KickoffRaw(raw) == [type |-> "raw", raw |-> raw, obj |-> None]
KickoffPydantic(obj) == [type |-> "pydantic", raw |-> <<>>, obj |-> obj]
KickoffOther(raw) == [type |-> "other", raw |-> raw, obj |-> None]
KickoffReturns(jobs, prose) ==
  {KickoffStr(r) : r \in RawOutputs(jobs, prose)} \cup
  {KickoffRaw(r) : r \in RawOutputs(jobs, {<<>>})} \cup
  {KickoffPydantic([guidance |-> GUIDANCE, matched_jobs |-> e]) : e \in Echoes(jobs)} \cup
  {KickoffOther(r) : r \in {<<<<"N", "o", "n", "e">>>>, enc_final(GUIDANCE, jobs)}}
\* the outcomes of kickoff: it raises e, or returns
KickoffOutcomes(jobs, prose) ==
  {[raises |-> TRUE, e |-> e, value |-> None] : e \in ErrorTexts} \cup
  {[raises |-> FALSE, e |-> <<>>, value |-> v] : v \in KickoffReturns(jobs, prose)}


(***************************************************************************)
(* The state of one request.                                               *)
(***************************************************************************)
VARIABLES
  pc,                     \* the position in process_career_request
  resume_file,            \* the uploaded document
  temp_uploads,           \* the files of TEMP_FILES_DIR: [path, data]
  pdf_path,               \* None, or the path of the temporary file
  llm_result,             \* the outcome of the completion call in _run
  processed_resume_data,  \* the dict _run returned
  user_skills,
  resume_summary,
  filtered_jobs_list,
  kickoff_result,         \* the outcome of career_guidance_crew.kickoff
  extracted_json_string,  \* json_match.group(0), None when nothing was extracted
  final_pydantic_result,  \* None, or the FinalCrewOutput
  outcome,                \* how the handler ends: a response or an HTTPException
  llm_calls,              \* completion calls made
  kickoff_calls,          \* kickoff calls made
  career_guidance_task,   \* the module-level Task every request's Crew is given
  task_seen,              \* None, or the state of that Task when this request's
                          \* Crew took it
  peer                    \* another request to the same handler

vars ==
  <<pc, resume_file, temp_uploads, pdf_path, llm_result, processed_resume_data,
    user_skills, resume_summary, filtered_jobs_list, kickoff_result,
    extracted_json_string, final_pydantic_result, outcome, llm_calls,
    kickoff_calls, career_guidance_task, task_seen, peer>>
\* what lives outside the locals of this request's handler
shared == <<career_guidance_task, task_seen, peer>>

\* the names NamedTemporaryFile may give a file
TempNames == {<<"t", "m", "p", "a", ".", "p", "d", "f">>, <<"t", "m", "p", "b", ".", "p", "d", "f">>}
exists(dir, path) == \E f \in dir : f.path = path
data_at(dir, path) == (CHOOSE f \in dir : f.path = path).data
\* a name the directory does not hold
fresh_name(dir) == CHOOSE n \in TempNames : ~exists(dir, n)

NoOutcome == [kind |-> "none"]
HTTPException(status_code, msg, arg) ==
  [kind |-> "HTTPException", status_code |-> status_code,
   detail |-> [msg |-> msg, arg |-> arg]]
\* lines 208-214
JSONResponse(final) ==
  [kind |-> "response", status_code |-> 200,
   content |-> [status |-> "success",
                message |-> "Career guidance generated successfully.",
                crew_output |-> final.guidance,
                matched_jobs |-> final.matched_jobs]]
\* the details of the HTTPExceptions; the text that follows each is the
\* detail's arg
MSG_RESUME ==
  "Resume processing failed: "
MSG_KICKOFF ==
  "CrewAI execution failed: "
MSG_PARSING ==
  "CrewAI output parsing error: Extracted content was not valid for FinalCrewOutput. Raw output: "
MSG_FORMAT ==
  "CrewAI output format error: The AI did not produce a recognizable JSON output. Raw output: "
MSG_NOT_INSTANCE ==
  "CrewAI output format error: Final result is not a FinalCrewOutput instance. This indicates a deeper issue. Raw initial output: "
MSG_INTERNAL ==
  "Internal server error: "
\* lines 219-224 left out: an exception that is no HTTPException leaves the
\* handler as it was raised
InternalError_escapes(e) == [kind |-> "Exception", e |-> e]
\* lines 219-224: any exception that is no HTTPException
InternalError(e) == HTTPException(500, MSG_INTERNAL, e)

\* the texts of the exceptions the handler's own statements raise
E_SLICE == <<<<"u", "n", "h", "a", "s", "h", "a", "b", "l", "e", " ", "t", "y", "p", "e", ":", " ", "'", "s", "l", "i", "c", "e", "'">>>>
E_LEN == <<<<"o", "b", "j", "e", "c", "t", " ", "h", "a", "s", " ", "n", "o", " ", "l", "e", "n", "(", ")">>>>
E_LOWER == <<<<"o", "b", "j", "e", "c", "t", " ", "h", "a", "s", " ", "n", "o", " ", "a", "t", "t", "r", "i", "b", "u", "t", "e", " ", "'", "l", "o", "w", "e", "r", "'">>>>

\* crew_setup.py lines 186-198: career_guidance_task, made once when the
\* module is imported; its description is a template with placeholders.
\* holds says whose inputs the description was last filled with
TaskHolding(who) == [holds |-> who]
TASK_AS_IMPORTED == TaskHolding("nobody")
\* a peer that has not arrived: worker says whether it runs in this
\* request's server process ("same") or in another ("other")
PeerAt(worker, peer_pc, path, seen) ==
  [worker |-> worker, pc |-> peer_pc, pdf_path |-> path, task_seen |-> seen]
NoPeer == PeerAt("other", "done", None, None)
\* the module as imported, and no other request
FreshShared ==
  /\ career_guidance_task = TASK_AS_IMPORTED
  /\ task_seen = None
  /\ peer = NoPeer

\* the locals of a request before it has run
Fresh ==
  /\ temp_uploads = {}
  /\ pdf_path = None
  /\ llm_result = NoLlm
  /\ processed_resume_data = None
  /\ user_skills = None
  /\ resume_summary = None
  /\ filtered_jobs_list = <<>>
  /\ kickoff_result = None
  /\ extracted_json_string = None
  /\ final_pydantic_result = None
  /\ outcome = NoOutcome
  /\ llm_calls = 0
  /\ kickoff_calls = 0
  /\ FreshShared

Init ==
  /\ pc = "start"
  /\ resume_file \in RequestDocuments
  /\ Fresh

\* lines 73-80: the upload is saved to a temporary file.  The file is
\* created, then the upload copied into it; pdf_path is set after the copy.
SaveUpload ==
  /\ pc = "start"
  /\ \E step \in {"saved", "create_fails", "copy_fails"}, e \in ErrorTexts :
       LET name == fresh_name(temp_uploads)
       IN  IF step = "saved"
             THEN /\ temp_uploads' = temp_uploads \cup {[path |-> name, data |-> resume_file]}
                  /\ pdf_path' = PyStr(name)
                  /\ pc' = "resume"
                  /\ UNCHANGED outcome
           ELSE IF step = "copy_fails"
             THEN /\ temp_uploads' = temp_uploads \cup {[path |-> name, data |-> UNREADABLE]}
                  /\ outcome' = InternalError(e)
                  /\ pc' = "finally"
                  /\ UNCHANGED pdf_path
           ELSE /\ outcome' = InternalError(e)
                /\ pc' = "finally"
                /\ UNCHANGED <<temp_uploads, pdf_path>>
  /\ UNCHANGED shared
  /\ UNCHANGED <<resume_file, llm_result, processed_resume_data, user_skills,
                 resume_summary, filtered_jobs_list, kickoff_result,
                 extracted_json_string, final_pydantic_result, llm_calls,
                 kickoff_calls>>

\* line 102: processed_resume_data.get("status") == "error"
status_is_error(d) == "status" \in DOMAIN d /\ d.status = "error"
\* line 105, 106: the .get with a default
get_skills(d) == IF "skills" \in DOMAIN d THEN d.skills ELSE PyList(<<>>)
get_summary(d) ==
  IF "resume_summary" \in DOMAIN d THEN d.resume_summary
  ELSE PyStr(NO_SUMMARY_EXTRACTED)
\* line 108: user_skills[:5] needs a sequence
sliceable(x) == x.t \in {"str", "list"}

\* lines 82-108: the resume tool runs and its result is read
ProcessResume ==
  /\ pc = "resume"
  /\ LET doc == data_at(temp_uploads, pdf_path.v)
     IN  \E llm \in IF run_calls_llm(doc) THEN LlmOutcomes ELSE {NoLlm} :
           LET d == run_resume_tool(doc, llm)
           IN  /\ llm_result' = llm
               /\ llm_calls' = IF run_calls_llm(doc) THEN llm_calls + 1 ELSE llm_calls
               /\ processed_resume_data' = d
               /\ IF status_is_error(d)
                    THEN /\ outcome' = HTTPException(400, MSG_RESUME,
                                                     <<d.error>>)
                         /\ pc' = "finally"
                         /\ UNCHANGED <<user_skills, resume_summary>>
                    ELSE /\ user_skills' = get_skills(d)
                         /\ resume_summary' = get_summary(d)
                         /\ IF ~sliceable(get_skills(d))
                              THEN outcome' = InternalError(E_SLICE) /\ pc' = "finally"
                            ELSE IF ~has_len(get_summary(d))
                              THEN outcome' = InternalError(E_LEN) /\ pc' = "finally"
                            ELSE pc' = "jobs" /\ UNCHANGED outcome
  /\ UNCHANGED shared
  /\ UNCHANGED <<resume_file, temp_uploads, pdf_path, filtered_jobs_list,
                 kickoff_result, extracted_json_string, final_pydantic_result,
                 kickoff_calls>>

\* lines 110-115
FilterJobs ==
  /\ pc = "jobs"
  /\ IF job_filter_raises(user_skills)
       THEN /\ outcome' = InternalError(E_LOWER)
            /\ pc' = "finally"
            /\ UNCHANGED filtered_jobs_list
       ELSE /\ filtered_jobs_list' = job_filter(user_skills)
            /\ pc' = "kickoff"
            /\ UNCHANGED outcome
  /\ UNCHANGED shared
  /\ UNCHANGED <<resume_file, temp_uploads, pdf_path, llm_result,
                 processed_resume_data, user_skills, resume_summary,
                 kickoff_result, extracted_json_string, final_pydantic_result,
                 llm_calls, kickoff_calls>>

\* lines 117-150: the one kickoff call; an exception of it is raised as the
\* HTTPException of line 147.  The Crew of lines 126-131 is given the
\* module-level career_guidance_task, and kickoff(inputs=...) fills the
\* task's description with the inputs of this request
Kickoff(outcomes) ==
  /\ pc = "kickoff"
  /\ \E k \in outcomes :
       /\ kickoff_result' = k
       /\ kickoff_calls' = kickoff_calls + 1
       /\ IF k.raises
            THEN /\ outcome' = HTTPException(500, MSG_KICKOFF, k.e)
                 /\ pc' = "finally"
            ELSE /\ pc' = "output"
                 /\ UNCHANGED outcome
  /\ task_seen' = career_guidance_task
  /\ career_guidance_task' = TaskHolding("this")
  /\ UNCHANGED peer
  /\ UNCHANGED <<resume_file, temp_uploads, pdf_path, llm_result,
                 processed_resume_data, user_skills, resume_summary,
                 filtered_jobs_list, extracted_json_string,
                 final_pydantic_result, llm_calls>>

\* lines 155-167: the str the handler parses; a FinalCrewOutput leaves it ""
full_string_output_of(value) == IF value.type = "pydantic" THEN <<>> ELSE value.raw
\* lines 160-162 with the test of line 160 on the attributes and not on the
\* type: an object of another type is taken as the result, unvalidated
direct_result_unchecked(value) ==
  IF value.type = "pydantic" THEN value.obj
  ELSE IF value.type = "other"
    THEN [guidance |-> [GUIDANCE EXCEPT !.potential_job_titles = <<>>],
          matched_jobs |-> <<>>]
  ELSE None
\* lines 160-162
direct_result(value) == IF value.type = "pydantic" THEN value.obj ELSE None
\* line 170: not final_pydantic_result and full_string_output
parses_string(value) == direct_result(value) = None /\ full_string_output_of(value) # <<>>

\* lines 152-214: the output of kickoff becomes a response or an error
HandleOutput ==
  /\ pc = "output"
  /\ LET value == kickoff_result.value
         full_string_output == full_string_output_of(value)
         stripped == text_strip(full_string_output)
     IN  IF parses_string(value)
           THEN IF json_match_found(stripped)
                  THEN /\ extracted_json_string' = json_match_group(stripped)
                       /\ IF model_validate_json(json_match_group(stripped)).ok
                            THEN /\ final_pydantic_result' =
                                      model_validate_json(json_match_group(stripped)).obj
                                 /\ outcome' = JSONResponse(
                                      model_validate_json(json_match_group(stripped)).obj)
                            ELSE /\ outcome' = HTTPException(500,
                                      MSG_PARSING,
                                      json_match_group(stripped))
                                 /\ UNCHANGED final_pydantic_result
                  ELSE /\ outcome' = HTTPException(500,
                            MSG_FORMAT,
                            full_string_output)
                       /\ UNCHANGED <<extracted_json_string, final_pydantic_result>>
         ELSE IF direct_result(value) = None
           THEN /\ outcome' = HTTPException(500,
                     MSG_NOT_INSTANCE,
                     value.raw)
                /\ UNCHANGED <<extracted_json_string, final_pydantic_result>>
         ELSE /\ final_pydantic_result' = direct_result(value)
              /\ outcome' = JSONResponse(direct_result(value))
              /\ UNCHANGED extracted_json_string
  /\ pc' = "finally"
  /\ UNCHANGED shared
  /\ UNCHANGED <<resume_file, temp_uploads, pdf_path, llm_result,
                 processed_resume_data, user_skills, resume_summary,
                 filtered_jobs_list, kickoff_result, llm_calls, kickoff_calls>>

\* lines 225-232: the temporary file is removed when pdf_path names a file
\* that exists; an exception of os.remove is logged and goes no further
Finally ==
  /\ pc = "finally"
  /\ IF pdf_path # None /\ exists(temp_uploads, pdf_path.v)
       THEN \E removed \in BOOLEAN :
              temp_uploads' = IF removed
                                THEN {f \in temp_uploads : f.path # pdf_path.v}
                                ELSE temp_uploads
       ELSE UNCHANGED temp_uploads
  /\ pc' = "done"
  /\ UNCHANGED shared
  /\ UNCHANGED <<resume_file, pdf_path, llm_result, processed_resume_data,
                 user_skills, resume_summary, filtered_jobs_list,
                 kickoff_result, extracted_json_string, final_pydantic_result,
                 outcome, llm_calls, kickoff_calls>>

\* the prose around the JSON of a kickoff output in a whole request
RequestProse == {<<>>, <<WORD, SPACE>>}
RequestKickoff == Kickoff(KickoffOutcomes(filtered_jobs_list, RequestProse))

Next ==
  \/ SaveUpload
  \/ ProcessResume
  \/ FilterJobs
  \/ RequestKickoff
  \/ HandleOutput
  \/ Finally

Spec == Init /\ [][Next]_vars

(***************************************************************************)
(* ResumeProcessingTool._run on its own, over every document of up to      *)
(* MaxPages pages and every outcome of the completion call.                *)
(***************************************************************************)
InitTool ==
  /\ pc = "tool"
  /\ resume_file \in Documents(MaxPages)
  /\ Fresh

\* crew_setup.py lines 26-106
RunTool ==
  /\ pc = "tool"
  /\ \E llm \in IF run_calls_llm(resume_file) THEN LlmOutcomes ELSE {NoLlm} :
       /\ llm_result' = llm
       /\ processed_resume_data' = run_resume_tool(resume_file, llm)
  /\ llm_calls' = IF run_calls_llm(resume_file) THEN llm_calls + 1 ELSE llm_calls
  /\ pc' = "tool_done"
  /\ UNCHANGED shared
  /\ UNCHANGED <<resume_file, temp_uploads, pdf_path, user_skills,
                 resume_summary, filtered_jobs_list, kickoff_result,
                 extracted_json_string, final_pydantic_result, outcome,
                 kickoff_calls>>

NextTool == RunTool

SpecTool == InitTool /\ [][NextTool]_vars

(***************************************************************************)
(* The guidance step of process_career_request (lines 117-232) on its own, *)
(* from the states in which the handler reaches it, over kickoff outputs   *)
(* with up to MaxProse pieces of prose around the JSON.                    *)
(***************************************************************************)
\* the request has saved its upload, run the resume tool on it with the
\* completion outcome llm, and filtered the jobs
AtKickoff(doc, llm) ==
  LET name == fresh_name({})
      d == run_resume_tool(doc, llm)
  IN  /\ pc = "kickoff"
      /\ resume_file = doc
      /\ temp_uploads = {[path |-> name, data |-> doc]}
      /\ pdf_path = PyStr(name)
      /\ llm_result = llm
      /\ processed_resume_data = d
      /\ user_skills = get_skills(d)
      /\ resume_summary = get_summary(d)
      /\ filtered_jobs_list = job_filter(get_skills(d))
      /\ kickoff_result = None
      /\ extracted_json_string = None
      /\ final_pydantic_result = None
      /\ outcome = NoOutcome
      /\ llm_calls = 1
      /\ kickoff_calls = 0
      /\ FreshShared

\* completion outcomes that lead to seven, two and no matched jobs
GuidanceLlmOutcomes ==
  {[raises |-> TRUE, content |-> <<>>],
   [raises |-> FALSE, content |-> LLM_MISSING_SUMMARY],
   [raises |-> FALSE, content |-> LLM_NO_SKILLS]}

InitGuidance ==
  \E llm \in GuidanceLlmOutcomes :
     AtKickoff([readable |-> TRUE, pages |-> <<PAGE_SKILLS>>], llm)

GuidanceKickoff == Kickoff(KickoffOutcomes(filtered_jobs_list, Prose(MaxProse)))

NextGuidance ==
  \/ GuidanceKickoff
  \/ HandleOutput
  \/ Finally

SpecGuidance == InitGuidance /\ [][NextGuidance]_vars

(***************************************************************************)
(* The job-matching step of process_career_request (lines 110-115) on its  *)
(* own, from the states in which the handler reaches it, over every list   *)
(* of up to MaxSkills profile skills the completion response can name.     *)
(***************************************************************************)
\* skills in several cases, one of them in no posting
SkillWords ==
  {<<"p", "y", "t", "h", "o", "n">>,
   <<"P", "y", "t", "h", "o", "n">>,
   <<"s", "q", "l">>,
   <<"J", "a", "v", "a">>,
   <<"g", "i", "t">>,
   <<"R", "u", "s", "t">>,
   <<"D", "o", "c", "k", "e", "r">>,
   <<"a", "w", "s">>}
\* a completion response naming the skills
llm_with_skills(skills) ==
  [raises |-> FALSE,
   content |-> <<LBRACE, Q(K_skills), COLON>> \o enc_strs(skills) \o
               <<COMMA, Q(K_summary), COLON, Q(<<"D", "e", "v">>), RBRACE>>]
\* the request has saved its upload and run the resume tool on it with the
\* completion outcome llm
AtJobs(doc, llm) ==
  LET name == fresh_name({})
      d == run_resume_tool(doc, llm)
  IN  /\ pc = "jobs"
      /\ resume_file = doc
      /\ temp_uploads = {[path |-> name, data |-> doc]}
      /\ pdf_path = PyStr(name)
      /\ llm_result = llm
      /\ processed_resume_data = d
      /\ user_skills = get_skills(d)
      /\ resume_summary = get_summary(d)
      /\ filtered_jobs_list = <<>>
      /\ kickoff_result = None
      /\ extracted_json_string = None
      /\ final_pydantic_result = None
      /\ outcome = NoOutcome
      /\ llm_calls = 1
      /\ kickoff_calls = 0
      /\ FreshShared

\* the completion outcomes: every list of skills, skills that are no strs,
\* and a failed call, which leaves the keyword skills of the page
FilterLlmOutcomes ==
  {llm_with_skills(s) : s \in SeqsUpTo(SkillWords, MaxSkills)} \cup
  {[raises |-> FALSE, content |-> LLM_INT_LIST_SKILLS],
   [raises |-> TRUE, content |-> <<>>]}

InitFilter ==
  \E llm \in FilterLlmOutcomes :
     AtJobs([readable |-> TRUE, pages |-> <<PAGE_SKILLS>>], llm)

NextFilter == FilterJobs

SpecFilter == InitFilter /\ [][NextFilter]_vars

(***************************************************************************)
(* Two requests to process_career_request: this one, in full, and a peer,  *)
(* of which the steps on what the two share are kept: the directory        *)
(* temp_uploads and, in one server process, the module-level               *)
(* career_guidance_task.  The handler is an async def without an await, so *)
(* in one process a request runs to its end before the other runs; in      *)
(* different worker processes the steps interleave freely and each process *)
(* has its own copy of the module.                                         *)
(***************************************************************************)
PEER_DOCUMENT == [readable |-> TRUE, pages |-> <<PAGE_MIXED>>]
ThisTurn == peer.worker = "other" \/ peer.pc \in {"start", "done"}
PeerTurn == peer.worker = "other" \/ pc \in {"start", "done"}

\* lines 73-80 for the peer
PeerSaveUpload ==
  /\ peer.pc = "start"
  /\ \E step \in {"saved", "copy_fails"} :
       LET name == fresh_name(temp_uploads)
       IN  IF step = "saved"
             THEN /\ temp_uploads' = temp_uploads \cup {[path |-> name, data |-> PEER_DOCUMENT]}
                  /\ peer' = [peer EXCEPT !.pc = "run", !.pdf_path = PyStr(name)]
             ELSE /\ temp_uploads' = temp_uploads \cup {[path |-> name, data |-> UNREADABLE]}
                  /\ peer' = [peer EXCEPT !.pc = "finally"]
  /\ UNCHANGED <<pc, resume_file, pdf_path, llm_result, processed_resume_data,
                 user_skills, resume_summary, filtered_jobs_list,
                 kickoff_result, extracted_json_string, final_pydantic_result,
                 outcome, llm_calls, kickoff_calls, career_guidance_task,
                 task_seen>>
\* lines 82-150 for the peer: the resume tool reads the peer's file, and,
\* unless the request failed before, its Crew is given the task of its
\* process and kickoff fills it with the peer's inputs
PeerRun ==
  /\ peer.pc = "run"
  /\ exists(temp_uploads, peer.pdf_path.v)
  /\ \E reaches_kickoff \in BOOLEAN :
       IF reaches_kickoff /\ peer.worker = "same"
         THEN /\ peer' = [peer EXCEPT !.pc = "finally",
                                       !.task_seen = career_guidance_task]
              /\ career_guidance_task' = TaskHolding("peer")
       ELSE IF reaches_kickoff
         THEN /\ peer' = [peer EXCEPT !.pc = "finally",
                                       !.task_seen = TASK_AS_IMPORTED]
              /\ UNCHANGED career_guidance_task
       ELSE /\ peer' = [peer EXCEPT !.pc = "finally"]
            /\ UNCHANGED career_guidance_task
  /\ UNCHANGED <<pc, resume_file, temp_uploads, pdf_path, llm_result,
                 processed_resume_data, user_skills, resume_summary,
                 filtered_jobs_list, kickoff_result, extracted_json_string,
                 final_pydantic_result, outcome, llm_calls, kickoff_calls,
                 task_seen>>
\* lines 225-232 for the peer
PeerFinally ==
  /\ peer.pc = "finally"
  /\ IF peer.pdf_path # None /\ exists(temp_uploads, peer.pdf_path.v)
       THEN \E removed \in BOOLEAN :
              temp_uploads' = IF removed
                                THEN {f \in temp_uploads : f.path # peer.pdf_path.v}
                                ELSE temp_uploads
       ELSE UNCHANGED temp_uploads
  /\ peer' = [peer EXCEPT !.pc = "done"]
  /\ UNCHANGED <<pc, resume_file, pdf_path, llm_result, processed_resume_data,
                 user_skills, resume_summary, filtered_jobs_list,
                 kickoff_result, extracted_json_string, final_pydantic_result,
                 outcome, llm_calls, kickoff_calls, career_guidance_task,
                 task_seen>>

\* the uploads of this request, and the peer in this process or in another
ConcurrentDocuments ==
  {[readable |-> TRUE, pages |-> <<None, PAGE_BLANK>>],
   [readable |-> TRUE, pages |-> <<PAGE_SKILLS>>]}
InitConcurrent ==
  /\ pc = "start"
  /\ resume_file \in ConcurrentDocuments
  /\ temp_uploads = {}
  /\ pdf_path = None
  /\ llm_result = NoLlm
  /\ processed_resume_data = None
  /\ user_skills = None
  /\ resume_summary = None
  /\ filtered_jobs_list = <<>>
  /\ kickoff_result = None
  /\ extracted_json_string = None
  /\ final_pydantic_result = None
  /\ outcome = NoOutcome
  /\ llm_calls = 0
  /\ kickoff_calls = 0
  /\ career_guidance_task = TASK_AS_IMPORTED
  /\ task_seen = None
  /\ peer \in {PeerAt(w, "start", None, None) : w \in {"same", "other"}}

ConcurrentKickoff == Kickoff(KickoffOutcomes(filtered_jobs_list, {<<>>}))
ThisRequest ==
  /\ ThisTurn
  /\ \/ SaveUpload
     \/ ProcessResume
     \/ FilterJobs
     \/ ConcurrentKickoff
     \/ HandleOutput
     \/ Finally
PeerRequest ==
  /\ PeerTurn
  /\ \/ PeerSaveUpload
     \/ PeerRun
     \/ PeerFinally

NextConcurrent ==
  \/ ThisRequest
  \/ PeerRequest

SpecConcurrent == InitConcurrent /\ [][NextConcurrent]_vars

(***************************************************************************)
(* The claims.                                                             *)
(***************************************************************************)
\* the document has a page with a character that is not whitespace
HasText(doc) ==
  /\ doc.readable
  /\ \E i \in 1..Len(doc.pages) :
        /\ doc.pages[i].t = "str"
        /\ \E k \in 1..Len(doc.pages[i].v) : doc.pages[i].v[k] \notin {" ", "\n", "\t"}
\* the upload was saved: the request got as far as the resume tool
UploadSaved == pdf_path # None
Failed == outcome.kind = "HTTPException"
Succeeded == outcome.kind = "response"

\* C1: when the handler has returned, however it ended (a response, an
\* HTTPException, an exception while the upload was copied, a failed
\* delete), temp_uploads holds no temporary file of the request.
C1_NoTemporaryFileRemains == pc = "done" => temp_uploads = {}

\* C2: the matched_jobs of a success response are the jobs the filtering
\* stage returned, whatever the generation call echoed.
C2_MatchedJobsAreTheFilteredJobs ==
  (pc = "done" /\ Succeeded) => outcome.content.matched_jobs = filtered_jobs_list

\* C3: a saved document that is empty or unreadable ends the request with
\* status 400 and the resume-processing message, and kickoff is never
\* called for it; a failure of the guidance step ends it with status 500.
C3_UnreadableDocumentIsClientError ==
  /\ (UploadSaved /\ ~HasText(resume_file)) => kickoff_calls = 0
  /\ (pc = "done" /\ UploadSaved /\ ~HasText(resume_file)) =>
        /\ Failed
        /\ outcome.status_code = 400
        /\ outcome.detail.msg = "Resume processing failed: "
  /\ (pc = "done" /\ kickoff_calls > 0 /\ Failed) => outcome.status_code = 500

\* the texts of the pages up to page n, in page order, a page without text
\* adding nothing
RECURSIVE TextUpTo(_, _)
TextUpTo(pages, n) ==
  IF n = 0 THEN <<>>
  ELSE TextUpTo(pages, n - 1) \o (IF pages[n] = None THEN <<>> ELSE pages[n].v)
\* _run got past the extraction: it returned a profile, not the error dict
Extracted(d) == "status" \in DOMAIN d /\ "error" \notin DOMAIN d
NO_READABLE_TEXT == "Failed to read or process PDF: No readable text found in PDF."

\* C4: for a readable document, the extraction succeeds exactly when some
\* page has a non-whitespace character; the text it yields is the pages'
\* texts in page order (a page without text adds nothing) and so is never
\* blank; a document with only whitespace gets the no-readable-text error.
C4_ExtractionContract ==
  pc = "tool_done" =>
    LET d == processed_resume_data
        pages == resume_file.pages
    IN  /\ Extracted(d) <=> HasText(resume_file)
        /\ Extracted(d) =>
              /\ d.extracted_text = TextUpTo(pages, Len(pages))
              /\ \E k \in 1..Len(d.extracted_text) :
                    d.extracted_text[k] \notin {" ", "\n", "\t"}
        /\ (resume_file.readable /\ ~HasText(resume_file)) =>
              /\ d.error = NO_READABLE_TEXT
              /\ d.extracted_text = <<>>
\* a page without text, a page of whitespace and a page with text, extracted
C4_Witness ==
  /\ pc = "tool_done"
  /\ resume_file.pages = <<None, PAGE_SKILLS>>
  /\ Extracted(processed_resume_data)
  /\ processed_resume_data.extracted_text = PAGE_SKILLS.v

\* the same letter, whatever its case
SameLetter(a, b) ==
  \/ a = b
  \/ \E n \in 1..26 : {a, b} = {UpperCase[n], LowerCase[n]}
\* the skill occurs in the text, compared without regard to case
PresentIn(skill, text) ==
  \E k \in 0..(Len(text) - Len(skill)) :
     \A j \in 1..Len(skill) : SameLetter(text[k + j], skill[j])
\* the entries of the vocabulary present in the text
KeywordSkills(text) ==
  {common_skills[n] : n \in {m \in 1..Len(common_skills) :
                               PresentIn(common_skills[m], text)}}
\* a comes before b in code point order
Before(a, b) ==
  \E k \in 1..Len(b) :
     /\ Len(a) >= k - 1
     /\ \A j \in 1..(k - 1) : a[j] = b[j]
     /\ \/ Len(a) = k - 1
        \/ ord(a[k]) < ord(b[k])
\* a list of strs, each before the next: sorted, without duplicates
SortedStrs(x) ==
  /\ x.t = "list"
  /\ \A i \in 1..Len(x.v) : x.v[i].t = "str"
  /\ \A i \in 1..(Len(x.v) - 1) : Before(x.v[i].v, x.v[i + 1].v)
\* the profile is the fallback's: the keyword skills of the text, sorted,
\* and the sentinel summary
IsFallbackProfile(d, text) ==
  /\ SortedStrs(d.skills)
  /\ {d.skills.v[i].v : i \in 1..Len(d.skills.v)} = KeywordSkills(text)
  /\ d.resume_summary = PyStr(FALLBACK_SUMMARY)
\* the response of the completion call is a JSON object with both fields
HasBothFields(llm) ==
  /\ ~llm.raises
  /\ json_loads(llm.content).ok
  /\ json_loads(llm.content).val.t = "dict"
  /\ \E i \in 1..Len(json_loads(llm.content).val.v) :
        json_loads(llm.content).val.v[i][1] = K_skills
  /\ \E i \in 1..Len(json_loads(llm.content).val.v) :
        json_loads(llm.content).val.v[i][1] = K_summary

\* C5: after a successful extraction, a completion call that raises, a
\* response that is no JSON, and a JSON response without skills or without
\* summary each give the fallback profile: keyword skills and the sentinel.
C5_TriggersGiveFallback ==
  (pc = "tool_done" /\ HasText(resume_file) /\ ~HasBothFields(llm_result)) =>
     IsFallbackProfile(processed_resume_data,
                       TextUpTo(resume_file.pages, Len(resume_file.pages)))

\* C6: after a successful extraction _run returns a profile whose skills
\* are a list of strs, never None or absent, and whose summary is a str.
C6_ProfileIsWellFormed ==
  (pc = "tool_done" /\ HasText(resume_file)) =>
     /\ "skills" \in DOMAIN processed_resume_data
     /\ processed_resume_data.skills.t = "list"
     /\ \A i \in 1..Len(processed_resume_data.skills.v) :
           processed_resume_data.skills.v[i].t = "str"
     /\ "resume_summary" \in DOMAIN processed_resume_data
     /\ processed_resume_data.resume_summary.t = "str"

\* C7: on the fallback path the skills are exactly the vocabulary entries
\* present in the text without regard to case, sorted and without
\* duplicates, and the summary is the sentinel.  The skills are thereby a
\* function of the text: two runs on one text return the same sequence.
C7_FallbackIsKeywordMatch ==
  (pc = "tool_done" /\ Extracted(processed_resume_data)
     /\ processed_resume_data.status = "partial_success") =>
     IsFallbackProfile(processed_resume_data,
                       TextUpTo(resume_file.pages, Len(resume_file.pages)))
\* the fallback ran on a text that names skills in another case, one of
\* them part of another, and whose order in the vocabulary is not sorted
C7_Witness ==
  /\ pc = "tool_done"
  /\ resume_file.pages = <<PAGE_MIXED, PAGE_SKILLS>>
  /\ llm_result.raises
  /\ processed_resume_data.status = "partial_success"
  /\ Len(processed_resume_data.skills.v) = 5

\* C8: the status tells the paths apart: "partial_success" exactly for a
\* fallback profile, "success" exactly when skills and summary both come
\* from the generation response.
C8_StatusTellsThePath ==
  (pc = "tool_done" /\ HasText(resume_file)) =>
     LET d == processed_resume_data
         parsed == json_loads(llm_result.content).val
     IN  /\ d.status \in {"success", "partial_success"}
         /\ d.status = "partial_success" <=>
              IsFallbackProfile(d, TextUpTo(resume_file.pages, Len(resume_file.pages)))
         /\ d.status = "success" <=>
              /\ HasBothFields(llm_result)
              /\ d.skills = dict_at(parsed, K_skills)
              /\ d.resume_summary = dict_at(parsed, K_summary)

\* the guidance step has run: kickoff was called and its outcome handled
GuidanceDone == pc \in {"finally", "done"} /\ kickoff_calls = 1
\* the text has a "{" with a "}" after it
HasBraces(s) ==
  \E i \in 1..Len(s) : \E j \in (i + 1)..Len(s) : s[i] = LBRACE /\ s[j] = RBRACE
\* the substring from the first "{" to the last "}"
BraceSpan(s) ==
  LET i == CHOOSE a \in 1..Len(s) :
             s[a] = LBRACE /\ \A b \in 1..(a - 1) : s[b] # LBRACE
      j == CHOOSE a \in 1..Len(s) :
             s[a] = RBRACE /\ \A b \in (a + 1)..Len(s) : s[b] # RBRACE
  IN  [n \in 1..(j - i + 1) |-> s[i + n - 1]]
\* the detail is one of the two output-format errors
IsFormatError(o) ==
  /\ o.kind = "HTTPException"
  /\ o.status_code = 500
  /\ o.detail.msg \in {MSG_FORMAT, MSG_NOT_INSTANCE}

\* C9: the guidance output is handled in a fixed order.  A kickoff that
\* raises fails the request with the generation error, nothing extracted
\* or parsed; a raw output without a {...} substring fails it with an
\* output-format error; a raw output whose {...} substring does not
\* validate fails it with the output-schema error, which carries that
\* substring.  Each case gives that one error and no success response.
C9_GuidanceErrorsInOrder ==
  GuidanceDone =>
    LET k == kickoff_result
    IN  IF k.raises
          THEN /\ outcome = HTTPException(500, "CrewAI execution failed: ", k.e)
               /\ extracted_json_string = None
               /\ final_pydantic_result = None
        ELSE IF k.value.type = "pydantic" THEN TRUE
        ELSE IF ~HasBraces(k.value.raw)
          THEN /\ IsFormatError(outcome)
               /\ extracted_json_string = None
               /\ final_pydantic_result = None
        ELSE IF ~model_validate_json(BraceSpan(k.value.raw)).ok
          THEN /\ outcome = HTTPException(500, MSG_PARSING, BraceSpan(k.value.raw))
               /\ final_pydantic_result = None
        ELSE TRUE
\* prose, a word in braces, prose: the schema error carries the braces'
\* substring and not the prose
C9_Witness ==
  /\ GuidanceDone
  /\ ~kickoff_result.raises
  /\ kickoff_result.value.raw = <<WORD, LBRACE, WORD, RBRACE, WORD>>
  /\ outcome = HTTPException(500, MSG_PARSING, <<LBRACE, WORD, RBRACE>>)

\* the raw output is the prose p, then a text, then the prose q
Around(p, q, raw) ==
  /\ Len(p) + Len(q) <= Len(raw)
  /\ SubSeq(raw, 1, Len(p)) = p
  /\ SubSeq(raw, Len(raw) - Len(q) + 1, Len(raw)) = q
Between(p, q, raw) == SubSeq(raw, Len(p) + 1, Len(raw) - Len(q))
\* the text is one JSON object, from its "{" to its "}", and validates as
\* FinalCrewOutput
IsValidObject(text) ==
  /\ text # <<>>
  /\ Head(text) = LBRACE
  /\ text[Len(text)] = RBRACE
  /\ model_validate_json(text).ok
\* some substring of the text is a JSON object
HasJsonObject(s) ==
  \E i \in 1..Len(s) : \E j \in (i + 1)..Len(s) :
     /\ s[i] = LBRACE
     /\ s[j] = RBRACE
     /\ json_loads(SubSeq(s, i, j)).ok
\* kickoff returned the raw output as a str
ReturnedStr ==
  GuidanceDone /\ ~kickoff_result.raises /\ kickoff_result.value.type = "str"

WellFormedFinal(obj) ==
  /\ DOMAIN obj = {"guidance", "matched_jobs"}
  /\ DOMAIN obj.guidance = {"career_path_suggestion", "relevant_skills_gap",
                            "actionable_steps", "potential_job_titles"}
  /\ Len(obj.guidance.potential_job_titles) >= 5
  /\ Len(obj.guidance.potential_job_titles) <= 10
  /\ \A i \in 1..Len(obj.matched_jobs) :
        DOMAIN obj.matched_jobs[i] =
          {"title", "company", "location", "skills_required", "description"}
\* what kickoff returned holds a validated result: it is a FinalCrewOutput,
\* or some {...} substring of its text validates as one
YieldsValidated(value) ==
  \/ value.type = "pydantic"
  \/ \E i \in positions(value.raw, LBRACE) : \E j \in positions(value.raw, RBRACE) :
        i < j /\ model_validate_json(SubSeq(value.raw, i, j)).ok

\* C11: a success response is produced only from a result that validated
\* in full as FinalCrewOutput, and carries that result's guidance and jobs;
\* a kickoff return value of any type (str, object with raw, FinalCrewOutput,
\* other, empty str) that holds no validated result ends the request in an
\* error, which carries no response content.
C11_SuccessOnlyWhenValidated ==
  (GuidanceDone /\ ~kickoff_result.raises) =>
    /\ Succeeded \/ Failed
    /\ Succeeded =>
         /\ YieldsValidated(kickoff_result.value)
         /\ final_pydantic_result # None
         /\ WellFormedFinal(final_pydantic_result)
         /\ outcome.content.status = "success"
         /\ outcome.content.crew_output = final_pydantic_result.guidance
         /\ outcome.content.matched_jobs = final_pydantic_result.matched_jobs
    /\ ~YieldsValidated(kickoff_result.value) =>
         /\ Failed
         /\ outcome.status_code = 500
         /\ final_pydantic_result = None
         /\ "content" \notin DOMAIN outcome
\* an object of another type whose text has no JSON ends in the error of
\* line 202, and nothing of it is accepted
C11_Witness ==
  /\ GuidanceDone
  /\ ~kickoff_result.raises
  /\ kickoff_result.value.type = "other"
  /\ ~YieldsValidated(kickoff_result.value)
  /\ outcome.kind = "HTTPException"
  /\ outcome.detail.msg = MSG_FORMAT

\* the details the handler's own raise statements give an HTTPException
StageMessages == {MSG_RESUME, MSG_KICKOFF, MSG_PARSING, MSG_FORMAT, MSG_NOT_INSTANCE}

\* C12: whatever fails inside the handler, the handler ends with a response
\* or with one HTTPException of one status and one detail.  An
\* HTTPException a stage raised leaves with its own status and detail (a
\* failed kickoff as "CrewAI execution failed" with the exception's text,
\* never rewrapped); an exception of any other type, such as a failed copy
\* of the upload or a skills value that cannot be sliced, leaves as status
\* 500 "Internal server error" with the exception's text; an error of the
\* delete in the finally block leaves nothing.
C12_EveryFailureIsOneHTTPException ==
  pc \in {"finally", "done"} =>
    /\ outcome.kind \in {"response", "HTTPException"}
    /\ Failed =>
         /\ outcome.status_code \in {400, 500}
         /\ outcome.detail.msg \in StageMessages \cup {MSG_INTERNAL}
         /\ outcome.detail.msg = MSG_INTERNAL =>
              /\ outcome.status_code = 500
              /\ kickoff_calls = 0
         /\ pdf_path = None => outcome.detail.msg = MSG_INTERNAL
         /\ (kickoff_calls = 1 /\ kickoff_result.raises) =>
              outcome = HTTPException(500, MSG_KICKOFF, kickoff_result.e)
         /\ (kickoff_calls = 1 /\ ~kickoff_result.raises) =>
              outcome.detail.msg \in {MSG_PARSING, MSG_FORMAT, MSG_NOT_INSTANCE}
\* an exception raised in the middle of the handler, after the upload was
\* saved, has left as the 500 of line 221 and the file's delete has failed
C12_Witness ==
  /\ pc = "done"
  /\ pdf_path # None
  /\ temp_uploads # {}
  /\ outcome.kind = "HTTPException"
  /\ outcome.status_code = 500
  /\ outcome.detail.msg = MSG_INTERNAL

\* two strs equal but for the case of their letters
EqualIgnoringCase(a, b) ==
  Len(a) = Len(b) /\ \A i \in 1..Len(a) : SameLetter(a[i], b[i])
\* the posting requires a skill the profile has
Qualifies(posting, skills) ==
  \E i \in 1..Len(posting.skills_required) : \E k \in 1..Len(skills.v) :
     EqualIgnoringCase(posting.skills_required[i], skills.v[k].v)
\* the catalog positions of the postings that qualify
QualifyingAt(skills) == {n \in 1..Len(CATALOG) : Qualifies(CATALOG[n], skills)}
\* the job-matching step has returned for a profile whose skills are strs
Matched ==
  /\ pc = "kickoff"
  /\ user_skills.t = "list"
  /\ \A k \in 1..Len(user_skills.v) : user_skills.v[k].t = "str"

\* C13: the job-matching step returns the postings of the catalog that
\* share a required skill with the profile, compared without regard to
\* case, in catalog order, cut to the first 7: the n-th result is the
\* qualifying posting with n - 1 qualifying postings before it; so the
\* result has at most 7 entries, "python" matches "Python", and no skills
\* give no jobs.
C13_MatchesAreFirstSevenInCatalogOrder ==
  Matched =>
    LET q == QualifyingAt(user_skills)
        result == filtered_jobs_list
    IN  /\ Len(result) <= 7
        /\ Len(result) = IF Cardinality(q) < 7 THEN Cardinality(q) ELSE 7
        /\ \A n \in 1..Len(result) :
             \E at \in q : /\ Cardinality({b \in q : b < at}) = n - 1
                           /\ result[n] = CATALOG[at]
        /\ user_skills.v = <<>> => result = <<>>
        /\ (\E k \in 1..Len(user_skills.v) : user_skills.v[k].v = <<"p", "y", "t", "h", "o", "n">>) =>
             \E n \in 1..Len(result) : \E i \in 1..Len(result[n].skills_required) :
                result[n].skills_required[i] = <<"P", "y", "t", "h", "o", "n">>
\* the one skill "python": eight postings qualify, the first seven are
\* returned, the first of them requiring "Python"
C13_Witness ==
  /\ Matched
  /\ user_skills.v = <<PyStr(<<"p", "y", "t", "h", "o", "n">>)>>
  /\ Cardinality(QualifyingAt(user_skills)) = 8
  /\ Len(filtered_jobs_list) = 7
  /\ filtered_jobs_list[1].skills_required[1] = <<"P", "y", "t", "h", "o", "n">>
  /\ filtered_jobs_list[7] = CATALOG[8]

\* _run returned from the generation response: the primary path
PrimaryPath ==
  /\ pc = "tool_done"
  /\ "status" \in DOMAIN processed_resume_data
  /\ processed_resume_data.status = "success"
\* no str occurs twice in the list
NoDuplicates(x) ==
  \A i \in 1..Len(x.v) : \A j \in 1..Len(x.v) : i # j => x.v[i].v # x.v[j].v

\* C14: on the primary path, for a response with a list of strs as skills
\* and a str as summary, the returned skills are the generated ones with
\* no str twice (strs differing in case are different), and the returned
\* summary is the generated summary unchanged.
C14_PrimarySkillsAreUnique ==
  (/\ PrimaryPath
   /\ HasBothFields(llm_result)
   /\ is_list_of_str(dict_at(json_loads(llm_result.content).val, K_skills))
   /\ is_str(dict_at(json_loads(llm_result.content).val, K_summary))) =>
    LET parsed == json_loads(llm_result.content).val
        d == processed_resume_data
    IN  /\ is_list_of_str(d.skills)
        /\ {d.skills.v[i].v : i \in 1..Len(d.skills.v)} =
             {dict_at(parsed, K_skills).v[i].v : i \in 1..Len(dict_at(parsed, K_skills).v)}
        /\ NoDuplicates(d.skills)
        /\ d.resume_summary = dict_at(parsed, K_summary)

\* C15: the detail of an unexpected internal error is generic: it is the
\* detail the handler gives for any other text of the exception, so two
\* requests that differ only in that text get the same detail.
C15_InternalDetailIsGeneric ==
  (pc = "done" /\ Failed /\ outcome.detail.msg = MSG_INTERNAL) =>
    \A e \in ErrorTexts : outcome.detail = InternalError(e).detail

\* C16: the stages of a request run in the order extraction, skill/summary,
\* job matching, guidance, each only after the one before it succeeded: the
\* handler is at the job matching or beyond only for a document whose text
\* was extracted and after the one generation call of the skill/summary
\* stage.  That stage calls the generation at most once, and a failed call
\* is followed by the fallback alone; the guidance stage calls kickoff
\* exactly once when reached, and a failed kickoff ends the request.
C16_StagesInOrderWithoutRetry ==
  /\ llm_calls <= 1
  /\ kickoff_calls <= 1
  /\ llm_calls = 1 => HasText(resume_file)
  /\ pc \in {"jobs", "kickoff", "output"} => (HasText(resume_file) /\ llm_calls = 1)
  /\ kickoff_calls = 1 => (HasText(resume_file) /\ llm_calls = 1)
  /\ pc = "kickoff" => kickoff_calls = 0
  /\ pc = "output" => (kickoff_calls = 1 /\ ~kickoff_result.raises)
  /\ (llm_calls = 1 /\ llm_result.raises) =>
       /\ processed_resume_data.status = "partial_success"
       /\ processed_resume_data.resume_summary = PyStr(FALLBACK_SUMMARY)
  /\ (kickoff_calls = 1 /\ kickoff_result.raises) =>
       /\ pc \in {"finally", "done"}
       /\ Failed
       /\ final_pydantic_result = None

\* the request is between the saving of its upload and its end
InFlight(at) == at \notin {"start", "done"}

\* C17: however two requests interleave, each has its own temporary file:
\* the two files in use have different paths, and a request's file holds
\* its own upload until the request itself deletes it; and no request
\* finds in the module-level task state that the other request wrote.
C17_RequestsShareNothingMutable ==
  /\ (InFlight(pc) /\ InFlight(peer.pc) /\ pdf_path # None /\ peer.pdf_path # None) =>
       pdf_path # peer.pdf_path
  /\ (pc \in {"resume", "jobs", "kickoff", "output", "finally"} /\ pdf_path # None) =>
       /\ exists(temp_uploads, pdf_path.v)
       /\ data_at(temp_uploads, pdf_path.v) = resume_file
  /\ (peer.pc \in {"run", "finally"} /\ peer.pdf_path # None) =>
       /\ exists(temp_uploads, peer.pdf_path.v)
       /\ data_at(temp_uploads, peer.pdf_path.v) = PEER_DOCUMENT
  /\ task_seen # TaskHolding("peer")
  /\ peer.task_seen # TaskHolding("this")
====
